---------------------------- MODULE Spec2Model ----------------------------
(***************************************************************************)
(* ProfitBot: the paginated listing collector (scraper/donedeal_scraper),  *)
(* the sold-listing collector, the product normalizer and the profit       *)
(* analysis (utils/ebay_comparison), and the listing cleaner               *)
(* (utils/clean_listings).                                                 *)
(*                                                                         *)
(* Python values are encoded as follows.  An optional value is a sequence  *)
(* of length at most one: None is <<>>, a present value x is <<x>>.        *)
(* A string the code inspects (an href) is a sequence of tokens; a string  *)
(* the code only copies is a TLA+ string.  Money is an integer number of   *)
(* cents, a conversion rate an integer number of hundredths, an exact      *)
(* quotient a pair <<numerator, denominator>> with denominator > 0.        *)
(***************************************************************************)
EXTENDS Integers, Sequences, FiniteSets, TLC

VARIABLES
    \* extract_listings (scraper/donedeal_scraper.py)
    max_pages,      \* the page cap argument: None or <<k>>
    listings,       \* the list being built
    seen_urls,      \* the set of urls already recorded
    page_num,       \* the page counter
    new_listings,   \* the last scraped page's count of new urls
    listing_elements, \* the elements found on the last scraped page
    status,         \* "running", or which break left the loop
    returned,       \* None until the function returns, then <<listings>>
    loads,          \* history: number of driver.get calls issued
    skipped,        \* history: the urls the last scraped page repeated
    \* EbayScraper.scrape_sold_listings (utils/ebay_comparison.py)
    max_results,    \* the per-domain cap argument
    domain_idx,     \* position of the loop over self.ebay_domains
    all_sold_items, \* the list being built
    queried,        \* history: the domains whose url was requested
    parsed,         \* history: per domain queried, the set of records parsed
                    \* from the items of its page that are within the cap
    failed,         \* history: the domains whose query failed
    sales_pc,       \* "running" | "returned" | "raised"
    \* analyze_profit_opportunities (utils/ebay_comparison.py)
    df,             \* the rows of the cleaned listings file
    unique_items,   \* group_similar_items(df)
    item_idx,       \* position of the loop over unique_items
    sold_listings,  \* the sale records collected for the last item analysed
    analysis_results, \* the list of result rows, in discovery order
    results_df,     \* None until ranked, then <<the sorted rows>>
    pc,             \* "group" | "analyze" | "rank" | "done" | "raised"
    \* normalize_product_name (utils/ebay_comparison.py), applied twice
    raw_title,      \* the argument
    first_key,      \* None, then <<normalize_product_name(raw_title)>>
    second_key,     \* None, then <<normalize_product_name(first_key)>>
    \* clean_price (utils/clean_listings.py)
    price_str,      \* the argument
    price_value,    \* None, then <<clean_price(price_str)>>
    \* clean_listings (utils/clean_listings.py)
    search_keyword, \* the keyword argument
    data,           \* the DataFrame argument: its columns and its rows
    clean_df,       \* the rows of the DataFrame being cleaned
    clean_pc        \* the step clean_listings has reached

collectorVars == <<max_pages, listings, seen_urls, page_num, new_listings,
                   listing_elements, status, returned, loads, skipped>>
salesVars == <<max_results, domain_idx, all_sold_items, queried, parsed,
               failed, sales_pc>>
analysisVars == <<df, unique_items, item_idx, sold_listings,
                  analysis_results, results_df, pc>>
normalizerVars == <<raw_title, first_key, second_key>>
priceVars == <<price_str, price_value>>
cleaningVars == <<search_keyword, data, clean_df, clean_pc>>
vars == <<collectorVars, salesVars, analysisVars, normalizerVars,
          priceVars, cleaningVars>>

None == <<>>
Some(x) == <<x>>

\* ------------------------------------------------------------------------
\* Bounds of the model
\* ------------------------------------------------------------------------
MaxCap == 2        \* page caps 0..MaxCap are tried, besides no cap
MaxPageLen == 2    \* listing elements on one page
MaxResults == 2    \* per-domain caps 1..MaxResults are tried
MaxSoldItems == 2  \* result items on one sold-listings page
MaxRows == 2       \* rows of the cleaned listings file
MaxDomainSold == 1 \* result items per domain page during the analysis
MaxTitleWords == 2 \* words of a title handed to normalize_product_name
MaxPriceTokens == 3 \* tokens of a price string handed to clean_price
MaxRawRows == 2    \* rows of the DataFrame handed to clean_listings

\* ------------------------------------------------------------------------
\* extract_listings
\* ------------------------------------------------------------------------
SiteRoot == "https://www.donedeal.ie"
NA == "N/A"

\* The href attribute values the page navigator may hand back: absent, empty,
\* site-relative, absolute.
Hrefs ==
    { None,
      Some(<<>>),
      Some(<<"/", "a">>),
      Some(<<SiteRoot, "/", "a">>),
      Some(<<"/", "b">>) }

\* A listing element as the DOM presents it: the title and price
\* sub-elements may be missing, the meta items are a list of texts.
Elements ==
    { [title |-> Some("Coat"), price |-> Some("E10"),
       meta_items |-> <<"1 day", "Dublin">>, href |-> Some(<<"/", "a">>)],
      [title |-> Some("Coat again"), price |-> Some("E10"),
       meta_items |-> <<"1 day", "Dublin">>,
       href |-> Some(<<SiteRoot, "/", "a">>)],
      [title |-> None, price |-> Some("E20"),
       meta_items |-> <<"2 days", "Cork">>, href |-> Some(<<"/", "b">>)],
      [title |-> Some("Hat"), price |-> None,
       meta_items |-> <<"3 days", "Galway">>, href |-> None],
      [title |-> Some("Scarf"), price |-> Some("E5"),
       meta_items |-> <<"3 days">>, href |-> Some(<<>>)] }

\* The element lists find_elements may return for a loaded page.
Pages == UNION { [1..n -> Elements] : n \in 1..MaxPageLen }

PageCaps == { None } \cup { Some(k) : k \in 0..MaxCap }

\* link.startswith("/")
StartsWithSlash(s) == Len(s) > 0 /\ s[1] = "/"

\* Python truthiness of the href attribute: None and "" are falsy.
Truthy(link) == link # None /\ link[1] # <<>>

\* line 57: the site root is prefixed to a relative link; an absent or empty
\* link becomes the sentinel.
FullLink(link) ==
    IF Truthy(link) /\ StartsWithSlash(link[1])
    THEN <<SiteRoot>> \o link[1]
    ELSE IF Truthy(link) THEN link[1] ELSE <<NA>>

\* lines 43-54: per-field extraction with the sentinel fallback
ExtractTitle(el) == IF el.title = None THEN NA ELSE el.title[1]
ExtractPrice(el) == IF el.price = None THEN NA ELSE el.price[1]
ExtractLocation(el) ==
    IF Len(el.meta_items) > 1 THEN el.meta_items[2] ELSE NA

MakeListing(el) ==
    [title |-> ExtractTitle(el), price |-> ExtractPrice(el),
     location |-> ExtractLocation(el), url |-> FullLink(el.href)]

\* lines 59-67 for one element, on the loop state
\* acc = [listings, seen_urls, new_listings, skipped]
RecordElementPerPage(acc, el) ==
    LET rec == MakeListing(el) IN
    IF \A i \in (Len(acc.listings) - acc.new_listings + 1)..Len(acc.listings) :
           acc.listings[i].url # rec.url
    THEN [acc EXCEPT !.listings = Append(@, rec),
                     !.seen_urls = @ \cup {rec.url},
                     !.new_listings = @ + 1]
    ELSE [acc EXCEPT !.skipped = @ \cup {rec.url}]

RecordElement(acc, el) ==
    LET rec == MakeListing(el) IN
    IF rec.url \notin acc.seen_urls
    THEN [acc EXCEPT !.listings = Append(@, rec),
                     !.seen_urls = @ \cup {rec.url},
                     !.new_listings = @ + 1]
    ELSE [acc EXCEPT !.skipped = @ \cup {rec.url}]

\* the loop over the page's elements, left at the first element without a
\* title
RECURSIVE ScrapeElementsUntilMissing(_, _, _)
ScrapeElementsUntilMissing(acc, elems, i) ==
    IF i > Len(elems) \/ elems[i].title = None THEN acc
    ELSE ScrapeElementsUntilMissing(RecordElement(acc, elems[i]), elems, i + 1)

\* lines 40-67: the loop over the page's elements, in page order
RECURSIVE ScrapeElements(_, _, _)
ScrapeElements(acc, elems, i) ==
    IF i > Len(elems) THEN acc
    ELSE ScrapeElements(RecordElement(acc, elems[i]), elems, i + 1)

CapReachedAfterLoad == max_pages # None /\ page_num > max_pages[1]

\* line 17: the cap is tested before the page is requested
CapReached == max_pages # None /\ page_num >= max_pages[1]

\* lines 17-19, 76
ReachedMaxPages ==
    /\ status = "running"
    /\ CapReached
    /\ status' = "capped"
    /\ returned' = Some(listings)
    /\ UNCHANGED <<max_pages, listings, seen_urls, page_num, new_listings,
                   listing_elements, loads, skipped>>
    /\ UNCHANGED <<salesVars, analysisVars, normalizerVars,
                   priceVars, cleaningVars>>

\* lines 25-33, 76: the wait for the results container times out
PageLoadTimeoutDropsListings ==
    /\ status = "running"
    /\ ~CapReached
    /\ loads' = loads + 1
    /\ status' = "load-failed"
    /\ listings' = <<>>
    /\ returned' = Some(<<>>)
    /\ UNCHANGED <<max_pages, seen_urls, page_num, new_listings,
                   listing_elements, skipped>>
    /\ UNCHANGED <<salesVars, analysisVars, normalizerVars,
                   priceVars, cleaningVars>>

PageLoadTimeout ==
    /\ status = "running"
    /\ ~CapReached
    /\ loads' = loads + 1
    /\ status' = "load-failed"
    /\ returned' = Some(listings)
    /\ UNCHANGED <<max_pages, listings, seen_urls, page_num, new_listings,
                   listing_elements, skipped>>
    /\ UNCHANGED <<salesVars, analysisVars, normalizerVars,
                   priceVars, cleaningVars>>

\* lines 25-38, 76: the container is there and holds no listing element
NoListingsFound ==
    /\ status = "running"
    /\ ~CapReached
    /\ loads' = loads + 1
    /\ status' = "exhausted"
    /\ returned' = Some(listings)
    /\ UNCHANGED <<max_pages, listings, seen_urls, page_num, new_listings,
                   listing_elements, skipped>>
    /\ UNCHANGED <<salesVars, analysisVars, normalizerVars,
                   priceVars, cleaningVars>>

PageNeverEndsRun(n) == FALSE

\* lines 69-73: a page without a new url ends the run
PageEndsRun(n) == n = 0

\* lines 25-76: a page with listing elements is scraped
ScrapePage ==
    /\ status = "running"
    /\ ~CapReached
    /\ \E elems \in Pages :
         LET acc == ScrapeElements(
                        [listings |-> listings, seen_urls |-> seen_urls,
                         new_listings |-> 0, skipped |-> {}],
                        elems, 1)
         IN /\ loads' = loads + 1
            /\ listing_elements' = elems
            /\ listings' = acc.listings
            /\ seen_urls' = acc.seen_urls
            /\ new_listings' = acc.new_listings
            /\ skipped' = acc.skipped
            /\ IF PageEndsRun(acc.new_listings)
               THEN /\ status' = "no-new-data"
                    /\ returned' = Some(acc.listings)
                    /\ page_num' = page_num
               ELSE /\ status' = "running"
                    /\ returned' = None
                    /\ page_num' = page_num + 1
    /\ UNCHANGED max_pages
    /\ UNCHANGED <<salesVars, analysisVars, normalizerVars,
                   priceVars, cleaningVars>>

\* lines 9-11 and the arguments; the other two components stay idle
CollectorInit ==
    /\ max_pages \in PageCaps
    /\ listings = <<>>
    /\ seen_urls = {}
    /\ page_num = 0
    /\ new_listings = 0
    /\ listing_elements = <<>>
    /\ status = "running"
    /\ returned = None
    /\ loads = 0
    /\ skipped = {}
    /\ max_results = 0
    /\ domain_idx = 1
    /\ all_sold_items = <<>>
    /\ queried = <<>>
    /\ parsed = <<>>
    /\ failed = {}
    /\ sales_pc = "idle"
    /\ df = <<>>
    /\ unique_items = <<>>
    /\ item_idx = 1
    /\ sold_listings = <<>>
    /\ analysis_results = <<>>
    /\ results_df = None
    /\ pc = "idle"
    /\ raw_title = <<>>
    /\ first_key = <<>>
    /\ second_key = <<>>
    /\ price_str = <<>>
    /\ price_value = <<>>
    /\ search_keyword = <<>>
    /\ data = <<>>
    /\ clean_df = <<>>
    /\ clean_pc = "idle"

CollectorNext ==
    \/ ReachedMaxPages
    \/ PageLoadTimeout
    \/ NoListingsFound
    \/ ScrapePage

\* extract_listings on every page cap, against every behaviour of the site
SpecCollector == CollectorInit /\ [][CollectorNext]_vars

\* The loop is sequential code whose every wait is bounded (a 10 s element
\* wait, a 1-2 s sleep): an iteration that can run does run.
FairSpecCollector == SpecCollector /\ WF_vars(CollectorNext)

\* ------------------------------------------------------------------------
\* EbayScraper: scrape_sold_listings, _scrape_domain, _extract_listing_data
\* ------------------------------------------------------------------------
\* A text the code scans is a sequence of one-character strings.
UpperLetters == <<"A", "B", "C", "D", "E", "F", "G", "H", "I", "J", "K", "L", "M",
                  "N", "O", "P", "Q", "R", "S", "T", "U", "V", "W", "X", "Y", "Z">>
LowerLetters == <<"a", "b", "c", "d", "e", "f", "g", "h", "i", "j", "k", "l", "m",
                  "n", "o", "p", "q", "r", "s", "t", "u", "v", "w", "x", "y", "z">>
DigitChars == <<"0", "1", "2", "3", "4", "5", "6", "7", "8", "9">>

IsDigit(c) == \E d \in 1..10 : DigitChars[d] = c
DigitValue(c) == (CHOOSE d \in 1..10 : DigitChars[d] = c) - 1

\* str.lower()
LowerChar(c) ==
    IF \E k \in 1..26 : UpperLetters[k] = c
    THEN LowerLetters[CHOOSE k \in 1..26 : UpperLetters[k] = c]
    ELSE c
Lower(t) == [i \in 1..Len(t) |-> LowerChar(t[i])]

\* re.sub(r'[chars]', '', t)
RECURSIVE RemoveChars(_, _)
RemoveChars(t, chars) ==
    IF t = <<>> THEN <<>>
    ELSE IF Head(t) \in chars THEN RemoveChars(Tail(t), chars)
         ELSE <<Head(t)>> \o RemoveChars(Tail(t), chars)

\* whether pat occurs in t at position i
MatchesAt(t, pat, i) ==
    /\ i >= 1
    /\ i + Len(pat) - 1 <= Len(t)
    /\ \A k \in 1..Len(pat) : t[i + k - 1] = pat[k]

\* pat in t
Contains(t, pat) == \E i \in 1..(Len(t) + 1) : MatchesAt(t, pat, i)

\* t.find(pat), 1-based; 0 when absent
Find(t, pat) ==
    IF Contains(t, pat)
    THEN CHOOSE i \in 1..(Len(t) + 1) :
             /\ MatchesAt(t, pat, i)
             /\ \A j \in 1..(i - 1) : ~MatchesAt(t, pat, j)
    ELSE 0

\* t.split(pat)[0]
SplitFirst(t, pat) ==
    IF Find(t, pat) = 0 THEN t ELSE SubSeq(t, 1, Find(t, pat) - 1)

\* the end of the run of digits that starts at i (i - 1 when there is none)
RECURSIVE DigitRunEnd(_, _)
DigitRunEnd(t, i) ==
    IF i <= Len(t) /\ IsDigit(t[i]) THEN DigitRunEnd(t, i + 1) ELSE i - 1

\* int() of a run of digits
RECURSIVE DigitsToInt(_)
DigitsToInt(ds) ==
    IF ds = <<>> THEN 0
    ELSE 10 * DigitsToInt(SubSeq(ds, 1, Len(ds) - 1)) + DigitValue(ds[Len(ds)])

\* re.search(r'(\d+\.?\d*)', t): None, or the matched text split at the point
FirstNumber(t) ==
    IF \A i \in 1..Len(t) : ~IsDigit(t[i]) THEN None
    ELSE LET i == CHOOSE k \in 1..Len(t) :
                      /\ IsDigit(t[k])
                      /\ \A j \in 1..(k - 1) : ~IsDigit(t[j])
             j == DigitRunEnd(t, i)
             hasPoint == j + 1 <= Len(t) /\ t[j + 1] = "."
             k == IF hasPoint THEN DigitRunEnd(t, j + 2) ELSE j
         IN Some([whole |-> SubSeq(t, i, j),
                  frac |-> IF hasPoint THEN SubSeq(t, j + 2, k) ELSE <<>>])

\* float() of the matched text, in cents.  The price texts of the model carry
\* at most two decimals, so the value is a whole number of cents.
ToCents(num) ==
    LET f == num.frac \o <<"0", "0">>
    IN 100 * DigitsToInt(num.whole)
         + 10 * DigitValue(f[1]) + DigitValue(f[2])

PriceNoise == {"£", "$", "€", ",", " "}

\* _clean_price, lines 121-138
CleanEbayPrice(price_text) ==
    LET stripped == RemoveChars(price_text, PriceNoise)
        cleaned == IF Contains(Lower(stripped), <<"t", "o">>)
                   THEN SplitFirst(stripped, <<"t", "o">>)
                   ELSE stripped
        price_match == FirstNumber(cleaned)
    IN IF price_match = None THEN None ELSE Some(ToCents(price_match[1]))

ebay_domains == <<"co.uk", "com", "ie">>

\* _get_currency_symbol, lines 156-163
GetCurrencySymbol(domain) ==
    CASE domain = "co.uk" -> "£"
      [] domain = "com" -> "$"
      [] domain = "ie" -> "€"
      [] OTHER -> "$"

\* _extract_sale_date and _extract_condition, lines 140-154
ExtractSaleDate(item) == IF item.tag = None THEN "Recently sold" ELSE item.tag[1]
ExtractCondition(item) ==
    IF item.condition = None THEN "Not specified" ELSE item.condition[1]

\* _extract_listing_data, lines 76-119: None, or the sale record.  subtitle
\* and title are lists of phrases, price_text a text; each may be missing.
ExtractListingData(item, domain) ==
    IF /\ item.subtitle # None
       /\ \E k \in 1..Len(item.subtitle[1]) :
              item.subtitle[1][k] \in {"Sponsored", "SPONSORED"}
    THEN None
    ELSE IF item.title = None THEN None
    ELSE IF \/ item.title[1] = <<>>
            \/ \E k \in 1..Len(item.title[1]) : item.title[1][k] = "New listing"
    THEN None
    ELSE IF item.price_text = None THEN None
    ELSE IF CleanEbayPrice(item.price_text[1]) = None THEN None
    ELSE Some([title |-> item.title[1],
               price |-> CleanEbayPrice(item.price_text[1])[1],
               price_text |-> item.price_text[1],
               domain |-> domain,
               sale_date |-> ExtractSaleDate(item),
               condition |-> ExtractCondition(item),
               currency |-> GetCurrencySymbol(domain)])

\* The result items a sold-listings page may show.
SaleItems ==
    { [subtitle |-> None, title |-> Some(<<"iPhone 16 128GB">>),
       price_text |-> Some(<<"£", "1", "5", "0", ".", "0", "0">>),
       tag |-> None, condition |-> Some("Pre-owned")],
      [subtitle |-> Some(<<"Sponsored">>), title |-> Some(<<"iPhone 16">>),
       price_text |-> Some(<<"£", "1", ".", "0", "0">>),
       tag |-> None, condition |-> None],
      [subtitle |-> Some(<<"Brand New">>), title |-> Some(<<"iPhone 16 Pro">>),
       price_text |-> Some(<<"$", "1", "4", "9", ".", "9", "6", " ", "t", "o", " ", "$", "1", "7", "0", ".", "0", "0">>),
       tag |-> Some("Sold 1 Nov"), condition |-> None],
      [subtitle |-> None, title |-> Some(<<"New listing", "iPhone 16">>),
       price_text |-> Some(<<"€", "9", "9", ".", "0", "0">>),
       tag |-> None, condition |-> None],
      [subtitle |-> None, title |-> Some(<<"iPhone 16 parts">>),
       price_text |-> Some(<<"F", "r", "e", "e">>),
       tag |-> None, condition |-> None],
      [subtitle |-> None, title |-> Some(<<"iPhone 16">>),
       price_text |-> None, tag |-> None, condition |-> None] }

\* The result items a domain's sold-listings page may show during the analysis.
SoldItem(text) ==
    [subtitle |-> None, title |-> Some(<<"iPhone 16 128GB">>),
     price_text |-> Some(text), tag |-> None, condition |-> None]

AnalysisItems(domain) ==
    CASE domain = "co.uk" ->
           { SoldItem(<<"£", "1", "3", "0", ".", "4", "0", " ", "t", "o", " ", "£", "1", "7", "0", ".", "0", "0">>) }
      [] domain = "com" -> { SoldItem(<<"$", "0", ".", "0", "1">>) }
      [] OTHER -> { SoldItem(<<"€", "1", "5", "0", ".", "0", "0">>) }

\* What _extract_listing_data returns for each item a page of the model shows
\* on each domain
extracted ==
    [item \in SaleItems \cup UNION { AnalysisItems(ebay_domains[i]) : i \in 1..3 },
     domain \in { ebay_domains[i] : i \in 1..3 } |->
        ExtractListingData(item, domain)]

\* lines 58-64: the loop over listings[:max_results]
RECURSIVE ExtractAll(_, _)
ExtractAll(items, domain) ==
    IF items = <<>> THEN <<>>
    ELSE extracted[Head(items), domain] \o ExtractAll(Tail(items), domain)

Min(a, b) == IF a <= b THEN a ELSE b

\* _scrape_domain, lines 41-74.  outcome is what the navigator did: the wait
\* timed out, another exception was raised, or the page loaded with items.
ScrapeDomain(outcome, domain, cap) ==
    IF outcome.kind = "loaded"
    THEN ExtractAll(SubSeq(outcome.items, 1, Min(Len(outcome.items), cap)),
                    domain)
    ELSE <<>>

\* scrape_sold_listings, lines 29-39, on one outcome per domain
RECURSIVE ScrapeSoldListings(_, _, _)
ScrapeSoldListings(outcomes, cap, i) ==
    IF i > Len(ebay_domains) THEN <<>>
    ELSE ScrapeDomain(outcomes[i], ebay_domains[i], cap)
           \o ScrapeSoldListings(outcomes, cap, i + 1)

SalePages == UNION { [1..n -> SaleItems] : n \in 0..MaxSoldItems }

\* lines 31-37, the wait of line 50 timing out (handled at line 69)
DomainTimeoutPropagates ==
    /\ sales_pc = "running"
    /\ domain_idx <= Len(ebay_domains)
    /\ queried' = Append(queried, ebay_domains[domain_idx])
    /\ failed' = failed \cup {ebay_domains[domain_idx]}
    /\ sales_pc' = "raised"
    /\ UNCHANGED <<max_results, domain_idx, all_sold_items, parsed>>
    /\ UNCHANGED <<collectorVars, analysisVars, normalizerVars,
                   priceVars, cleaningVars>>

DomainTimeout ==
    /\ sales_pc = "running"
    /\ domain_idx <= Len(ebay_domains)
    /\ queried' = Append(queried, ebay_domains[domain_idx])
    /\ failed' = failed \cup {ebay_domains[domain_idx]}
    /\ parsed' = Append(parsed, {})
    /\ all_sold_items' = all_sold_items
           \o ScrapeDomain([kind |-> "timeout"], ebay_domains[domain_idx],
                           max_results)
    /\ domain_idx' = domain_idx + 1
    /\ UNCHANGED <<max_results, sales_pc>>
    /\ UNCHANGED <<collectorVars, analysisVars, normalizerVars,
                   priceVars, cleaningVars>>

\* lines 31-37, any other exception of the query (handled at line 72)
DomainError ==
    /\ sales_pc = "running"
    /\ domain_idx <= Len(ebay_domains)
    /\ queried' = Append(queried, ebay_domains[domain_idx])
    /\ failed' = failed \cup {ebay_domains[domain_idx]}
    /\ parsed' = Append(parsed, {})
    /\ all_sold_items' = all_sold_items
           \o ScrapeDomain([kind |-> "error"], ebay_domains[domain_idx],
                           max_results)
    /\ domain_idx' = domain_idx + 1
    /\ UNCHANGED <<max_results, sales_pc>>
    /\ UNCHANGED <<collectorVars, analysisVars, normalizerVars,
                   priceVars, cleaningVars>>

\* lines 31-37, the page loaded
DomainScraped ==
    /\ sales_pc = "running"
    /\ domain_idx <= Len(ebay_domains)
    /\ \E items \in SalePages :
         /\ queried' = Append(queried, ebay_domains[domain_idx])
         /\ parsed' = Append(parsed,
                { extracted[items[k], ebay_domains[domain_idx]][1] :
                    k \in { n \in 1..Len(items) :
                              /\ n <= max_results
                              /\ extracted[items[n], ebay_domains[domain_idx]]
                                   # None } })
         /\ all_sold_items' = all_sold_items
                \o ScrapeDomain([kind |-> "loaded", items |-> items],
                                ebay_domains[domain_idx], max_results)
    /\ domain_idx' = domain_idx + 1
    /\ UNCHANGED <<max_results, failed, sales_pc>>
    /\ UNCHANGED <<collectorVars, analysisVars, normalizerVars,
                   priceVars, cleaningVars>>

\* line 39
ReturnSoldItems ==
    /\ sales_pc = "running"
    /\ domain_idx > Len(ebay_domains)
    /\ sales_pc' = "returned"
    /\ UNCHANGED <<max_results, domain_idx, all_sold_items, queried, parsed,
                   failed>>
    /\ UNCHANGED <<collectorVars, analysisVars, normalizerVars,
                   priceVars, cleaningVars>>

\* line 29 and the arguments; the other two components stay idle
SalesInit ==
    /\ max_results \in 1..MaxResults
    /\ domain_idx = 1
    /\ all_sold_items = <<>>
    /\ queried = <<>>
    /\ parsed = <<>>
    /\ failed = {}
    /\ sales_pc = "running"
    /\ max_pages = None
    /\ listings = <<>>
    /\ seen_urls = {}
    /\ page_num = 0
    /\ new_listings = 0
    /\ listing_elements = <<>>
    /\ status = "idle"
    /\ returned = None
    /\ loads = 0
    /\ skipped = {}
    /\ df = <<>>
    /\ unique_items = <<>>
    /\ item_idx = 1
    /\ sold_listings = <<>>
    /\ analysis_results = <<>>
    /\ results_df = None
    /\ pc = "idle"
    /\ raw_title = <<>>
    /\ first_key = <<>>
    /\ second_key = <<>>
    /\ price_str = <<>>
    /\ price_value = <<>>
    /\ search_keyword = <<>>
    /\ data = <<>>
    /\ clean_df = <<>>
    /\ clean_pc = "idle"

SalesNext ==
    \/ DomainTimeout
    \/ DomainError
    \/ DomainScraped
    \/ ReturnSoldItems

\* scrape_sold_listings on every cap, against every behaviour of the domains
SpecSales == SalesInit /\ [][SalesNext]_vars

\* ------------------------------------------------------------------------
\* normalize_product_name and group_similar_items
\* ------------------------------------------------------------------------
\* line 177-185, in list order
noise_words ==
    << <<"e", "x", "c", "e", "l", "l", "e", "n", "t", " ", "c", "o", "n", "d", "i", "t", "i", "o", "n">>,
       <<"g", "o", "o", "d", " ", "c", "o", "n", "d", "i", "t", "i", "o", "n">>,
       <<"f", "a", "i", "r", " ", "c", "o", "n", "d", "i", "t", "i", "o", "n">>,
       <<"p", "o", "o", "r", " ", "c", "o", "n", "d", "i", "t", "i", "o", "n">>,
       <<"b", "r", "a", "n", "d", " ", "n", "e", "w">>,
       <<"n", "e", "w">>,
       <<"u", "s", "e", "d">>,
       <<"r", "e", "f", "u", "r", "b", "i", "s", "h", "e", "d">>,
       <<"u", "n", "l", "o", "c", "k", "e", "d">>,
       <<"l", "o", "c", "k", "e", "d">>,
       <<"w", "i", "t", "h", " ", "b", "o", "x">>,
       <<"b", "o", "x", "e", "d">>,
       <<"u", "n", "b", "o", "x", "e", "d">>,
       <<"n", "o", " ", "b", "o", "x">>,
       <<"c", "h", "a", "r", "g", "e", "r", " ", "i", "n", "c", "l", "u", "d", "e", "d">>,
       <<"o", "r", "i", "g", "i", "n", "a", "l", " ", "b", "o", "x">>,
       <<"a", "c", "c", "e", "s", "s", "o", "r", "i", "e", "s">>,
       <<"m", "i", "n", "t", " ", "c", "o", "n", "d", "i", "t", "i", "o", "n">>,
       <<"l", "i", "k", "e", " ", "n", "e", "w">>,
       <<"b", "a", "r", "e", "l", "y", " ", "u", "s", "e", "d">>,
       <<"p", "e", "r", "f", "e", "c", "t", " ", "c", "o", "n", "d", "i", "t", "i", "o", "n">>,
       <<"g", "r", "e", "a", "t", " ", "c", "o", "n", "d", "i", "t", "i", "o", "n">>,
       <<"w", "o", "r", "k", "i", "n", "g">>,
       <<"a", "p", "p", "l", "e">>,
       <<"g", "e", "n", "u", "i", "n", "e">>,
       <<"o", "r", "i", "g", "i", "n", "a", "l">>,
       <<"o", "f", "f", "i", "c", "i", "a", "l">> >>

\* line 205, in list order
colors ==
    << <<"b", "l", "a", "c", "k">>,
       <<"w", "h", "i", "t", "e">>,
       <<"r", "e", "d">>,
       <<"b", "l", "u", "e">>,
       <<"g", "r", "e", "e", "n">>,
       <<"y", "e", "l", "l", "o", "w">>,
       <<"p", "u", "r", "p", "l", "e">>,
       <<"p", "i", "n", "k">>,
       <<"s", "i", "l", "v", "e", "r">>,
       <<"g", "o", "l", "d">>,
       <<"r", "o", "s", "e">>,
       <<"s", "p", "a", "c", "e">>,
       <<"g", "r", "a", "y">>,
       <<"g", "r", "e", "y">> >>

IsSpace(c) == c \in {" ", "\t", "\n"}
IsLetter(c) == \E k \in 1..26 : UpperLetters[k] = c \/ LowerLetters[k] = c
\* \w
IsWordChar(c) == IsDigit(c) \/ IsLetter(c) \/ c = "_"

\* str.replace(pat, ''): the occurrences are taken left to right, and the
\* text that a removal joins is not scanned again
RECURSIVE Remove(_, _)
Remove(t, pat) ==
    IF Len(t) < Len(pat) THEN t
    ELSE IF MatchesAt(t, pat, 1)
         THEN Remove(SubSeq(t, Len(pat) + 1, Len(t)), pat)
         ELSE <<Head(t)>> \o Remove(Tail(t), pat)

\* for w in words: t = t.replace(w, '')
RECURSIVE RemoveEach(_, _, _)
RemoveEach(t, words, i) ==
    IF i > Len(words) THEN t
    ELSE RemoveEach(Remove(t, words[i]), words, i + 1)

\* re.sub(r'[^\w\s]', ' ', t)
PunctuationToSpace(t) ==
    [i \in 1..Len(t) |-> IF IsWordChar(t[i]) \/ IsSpace(t[i]) THEN t[i] ELSE " "]

\* str.strip()
RECURSIVE Strip(_)
Strip(t) ==
    IF t = <<>> THEN t
    ELSE IF IsSpace(Head(t)) THEN Strip(Tail(t))
    ELSE IF IsSpace(t[Len(t)]) THEN Strip(SubSeq(t, 1, Len(t) - 1))
    ELSE t

\* re.sub(r'\s+', ' ', t)
RECURSIVE SqueezeSpaces(_)
SqueezeSpaces(t) ==
    IF t = <<>> THEN t
    ELSE IF IsSpace(Head(t))
         THEN IF Len(t) > 1 /\ IsSpace(t[2])
              THEN SqueezeSpaces(Tail(t))
              ELSE <<" ">> \o SqueezeSpaces(Tail(t))
         ELSE <<Head(t)>> \o SqueezeSpaces(Tail(t))

\* re.sub(r'\s+', ' ', t).strip()
CollapseSpaces(t) == Strip(SqueezeSpaces(t))

\* \s* from position i: the position of the first character that is no space
RECURSIVE SkipSpaces(_, _)
SkipSpaces(t, i) ==
    IF i <= Len(t) /\ IsSpace(t[i]) THEN SkipSpaces(t, i + 1) ELSE i

\* (?:pro|plus|max|mini)* from position i: the position after the last one
RECURSIVE SkipQualifiers(_, _)
SkipQualifiers(t, i) ==
    IF MatchesAt(t, <<"p", "r", "o">>, i) THEN SkipQualifiers(t, i + 3)
    ELSE IF MatchesAt(t, <<"p", "l", "u", "s">>, i) THEN SkipQualifiers(t, i + 4)
    ELSE IF MatchesAt(t, <<"m", "a", "x">>, i) THEN SkipQualifiers(t, i + 3)
    ELSE IF MatchesAt(t, <<"m", "i", "n", "i">>, i) THEN SkipQualifiers(t, i + 4)
    ELSE i

IphoneWord == <<"i", "p", "h", "o", "n", "e">>

\* whether iphone\s*\d matches at position p
IphoneModelAt(t, p) ==
    /\ MatchesAt(t, IphoneWord, p)
    /\ SkipSpaces(t, p + 6) <= Len(t)
    /\ IsDigit(t[SkipSpaces(t, p + 6)])

\* lines 197-201: re.search of
\*   iphone\s*(\d+\s*(?:pro|plus|max|mini)*)\s*(\d+gb)?
\* None when nothing matches, else the key built from the two groups.  Every
\* quantifier is greedy and whatever follows the first \d+ may match empty, so
\* the leftmost start with a digit after the spaces is the match.
IphoneKey(t) ==
    IF \A p \in 1..Len(t) : ~IphoneModelAt(t, p) THEN None
    ELSE LET p == CHOOSE k \in 1..Len(t) :
                      /\ IphoneModelAt(t, k)
                      /\ \A j \in 1..(k - 1) : ~IphoneModelAt(t, j)
             m1 == SkipSpaces(t, p + 6)
             m2 == SkipQualifiers(t, SkipSpaces(t, DigitRunEnd(t, m1) + 1))
             g1 == SkipSpaces(t, m2)
             g2 == DigitRunEnd(t, g1)
             hasStorage == g2 >= g1 /\ MatchesAt(t, <<"g", "b">>, g2 + 1)
             model == Strip(SubSeq(t, m1, m2 - 1))
             storage == IF hasStorage THEN SubSeq(t, g1, g2 + 2) ELSE <<>>
         IN Some(Strip(IphoneWord \o <<" ">> \o model \o <<" ">> \o storage))

\* normalize_product_name, lines 165-212
normalize_product_name(title) ==
    IF title = <<>> THEN <<>>
    ELSE LET normalized ==
                 CollapseSpaces(PunctuationToSpace(
                     RemoveEach(Lower(title), noise_words, 1)))
         IN IF Contains(normalized, IphoneWord) /\ IphoneKey(normalized) # None
            THEN IphoneKey(normalized)[1]
            ELSE CollapseSpaces(RemoveEach(normalized, colors, 1))

\* The rows pd.read_excel may give.  A cell that is empty or holds "N/A" (the
\* sentinel extract_listings writes for a missing field) is read as NaN:
\* location and url are optional values, None for NaN.
CleanedRows ==
    { [title |-> <<"i", "P", "h", "o", "n", "e", " ", "1", "6", " ", "1", "2", "8", "G", "B">>,
       numeric_price |-> 10000, location |-> None, url |-> Some("url-1")],
      [title |-> <<"i", "p", "h", "o", "n", "e", " ", "1", "6", " ", "1", "2", "8", "g", "b", " ", "u", "n", "l", "o", "c", "k", "e", "d">>,
       numeric_price |-> 12000, location |-> Some("Cork"),
       url |-> Some("url-2")],
      [title |-> <<"B", "r", "a", "n", "d", " ", "N", "e", "w">>,
       numeric_price |-> 5000, location |-> Some("Galway"),
       url |-> Some("url-3")],
      [title |-> <<"R", "e", "d", " ", "C", "o", "a", "t">>,
       numeric_price |-> 0, location |-> Some("Sligo"),
       url |-> Some("url-4")] }

\* clean_listings saves a file only when a listing is left (clean_listings.py
\* lines 146-148), so the file read at line 258 has a row.
CleanedFiles == UNION { [1..n -> CleanedRows] : n \in 1..MaxRows }

\* line 220: the normalized_name of each title a row of the model may carry
normalized_name ==
    [title \in { row.title : row \in CleanedRows } |->
        normalize_product_name(title)]

\* The characters of a key in code point order, for the order of two keys.
CodeOrder == <<" ">> \o DigitChars \o <<"_">> \o LowerLetters
CharCode(c) == CHOOSE k \in 1..Len(CodeOrder) : CodeOrder[k] = c

\* a < b on strings
RECURSIVE StrLess(_, _)
StrLess(a, b) ==
    IF b = <<>> THEN FALSE
    ELSE IF a = <<>> THEN TRUE
    ELSE IF Head(a) = Head(b) THEN StrLess(Tail(a), Tail(b))
    ELSE CharCode(Head(a)) < CharCode(Head(b))

\* the keys of a groupby, which sorts them
RECURSIVE SortedKeys(_)
SortedKeys(keys) ==
    IF keys = {} THEN <<>>
    ELSE LET least == CHOOSE k \in keys : \A o \in keys \ {k} : StrLess(k, o)
         IN <<least>> \o SortedKeys(keys \ {least})

\* the rows of one group, in frame order
RECURSIVE RowsOf(_, _)
RowsOf(frame, key) ==
    IF frame = <<>> THEN <<>>
    ELSE IF normalized_name[Head(frame).title] = key
         THEN <<Head(frame)>> \o RowsOf(Tail(frame), key)
         ELSE RowsOf(Tail(frame), key)

RECURSIVE SumPrices(_)
SumPrices(rows) ==
    IF rows = <<>> THEN 0 ELSE Head(rows).numeric_price + SumPrices(Tail(rows))

MinPrice(rows) ==
    CHOOSE m \in { rows[i].numeric_price : i \in 1..Len(rows) } :
        \A i \in 1..Len(rows) : m <= rows[i].numeric_price
MaxPrice(rows) ==
    CHOOSE m \in { rows[i].numeric_price : i \in 1..Len(rows) } :
        \A i \in 1..Len(rows) : m >= rows[i].numeric_price

\* lines 226-227: the groupby aggregation 'first' gives the first value of
\* the column that is not NaN, and NaN when the group has none
RECURSIVE First(_)
First(values) ==
    IF values = <<>> THEN None
    ELSE IF Head(values) # None THEN Head(values)
    ELSE First(Tail(values))

\* lines 223-232: the aggregate of one group; the mean is the exact quotient
Aggregate(frame, key) ==
    LET rows == RowsOf(frame, key)
    IN [search_term |-> key,
        representative_title |-> rows[1].title,
        avg_donedeal_price |-> <<SumPrices(rows), Len(rows)>>,
        min_donedeal_price |-> MinPrice(rows),
        max_donedeal_price |-> MaxPrice(rows),
        listing_count |-> Len(rows),
        location |-> First([i \in 1..Len(rows) |-> rows[i].location]),
        url |-> First([i \in 1..Len(rows) |-> rows[i].url])]

\* group_similar_items, lines 214-239
group_similar_items(frame) ==
    LET keys == SortedKeys({ normalized_name[frame[i].title] :
                               i \in 1..Len(frame) } \ {<<>>})
    IN [k \in 1..Len(keys) |-> Aggregate(frame, keys[k])]

\* ------------------------------------------------------------------------
\* analyze_profit_opportunities
\* ------------------------------------------------------------------------
\* Exact quotients <<n, d>>, d > 0, kept in lowest terms
Abs(n) == IF n < 0 THEN -n ELSE n

RECURSIVE GCD(_, _)
GCD(a, b) == IF b = 0 THEN a ELSE GCD(b, a % b)

Reduce(q) ==
    LET g == GCD(Abs(q[1]), q[2]) IN <<q[1] \div g, q[2] \div g>>

RAdd(a, b) ==
    LET g == GCD(a[2], b[2])
    IN Reduce(<<a[1] * (b[2] \div g) + b[1] * (a[2] \div g),
                (a[2] \div g) * b[2]>>)
RSub(a, b) == RAdd(a, <<-b[1], b[2]>>)
RMulInt(a, k) ==
    LET g == GCD(Abs(k), a[2])
    IN Reduce(<<a[1] * (k \div g), a[2] \div g>>)
\* a / b for b > 0
RDiv(a, b) ==
    LET g == GCD(Abs(a[1]), b[1])
        h == GCD(b[2], a[2])
    IN Reduce(<<(a[1] \div g) * (b[2] \div h), (a[2] \div h) * (b[1] \div g)>>)
RLeq(a, b) == a[1] * b[2] <= b[1] * a[2]
RGeqInt(a, k) == a[1] >= k * a[2]

RECURSIVE RSum(_)
RSum(qs) == IF qs = <<>> THEN <<0, 1>> ELSE RAdd(Head(qs), RSum(Tail(qs)))

RMin(qs) == CHOOSE m \in { qs[i] : i \in 1..Len(qs) } :
                \A i \in 1..Len(qs) : RLeq(m, qs[i])
RMax(qs) == CHOOSE m \in { qs[i] : i \in 1..Len(qs) } :
                \A i \in 1..Len(qs) : RLeq(qs[i], m)

\* round(): the whole numbers nearest to q.  A float that stands for a
\* decimal halfway case lies just above or just below it, so either
\* neighbour may come out; otherwise the nearest one does.
NearestIntegers(q) ==
    LET lo == q[1] \div q[2]
        rest == q[1] - lo * q[2]
    IN IF 2 * rest < q[2] THEN {lo}
       ELSE IF 2 * rest > q[2] THEN {lo + 1}
       ELSE {lo, lo + 1}

\* round(x, 2) of an amount in cents, round(x, 1) of a percentage in tenths
Round2(q) == NearestIntegers(q)
Round1(q) == NearestIntegers(RMulInt(q, 10))

\* line 290: conversion_rates.get(symbol, 1.0), in hundredths
ConversionRate(symbol) ==
    CASE symbol = "£" -> 115
      [] symbol = "$" -> 85
      [] symbol = "€" -> 100
      [] OTHER -> 100

\* lines 293-296: the sale prices in EUR cents
EurPrices(sold) ==
    [i \in 1..Len(sold) |->
        <<sold[i].price * ConversionRate(sold[i].currency), 100>>]

\* lines 299, 304
EbayAvgEur(sold) == RDiv(RSum(EurPrices(sold)), <<Len(sold), 1>>)
ProfitPotential(item, sold) == RSub(EbayAvgEur(sold), item.avg_donedeal_price)

\* line 305
ProfitFraction(item, sold) ==
    IF item.avg_donedeal_price[1] > 0
    THEN RDiv(ProfitPotential(item, sold), item.avg_donedeal_price)
    ELSE <<0, 1>>

ProfitPercentage(item, sold) ==
    IF item.avg_donedeal_price[1] > 0
    THEN RMulInt(RDiv(ProfitPotential(item, sold), item.avg_donedeal_price),
                 100)
    ELSE <<0, 1>>

\* lines 308-315
Opportunity(profit_percentage) ==
    IF RGeqInt(profit_percentage, 50) THEN "EXCELLENT"
    ELSE IF RGeqInt(profit_percentage, 25) THEN "GOOD"
    ELSE IF RGeqInt(profit_percentage, 10) THEN "MODERATE"
    ELSE "LOW"

\* lines 317-334: the rows the evaluation of an item with sales may append
\* (one row, but for the halfway cases of round)
SalesRows(item, sold) ==
    { [item_title |-> item.representative_title,
       search_term |-> item.search_term,
       donedeal_avg_price |-> avg,
       donedeal_min_price |-> item.min_donedeal_price,
       donedeal_max_price |-> item.max_donedeal_price,
       donedeal_listings |-> item.listing_count,
       donedeal_location |-> item.location,
       donedeal_url |-> item.url,
       ebay_avg_price_eur |-> Some(eavg),
       ebay_min_price_eur |-> Some(emin),
       ebay_max_price_eur |-> Some(emax),
       ebay_sold_count |-> Len(sold),
       profit_potential_eur |-> Some(profit),
       profit_percentage |-> Some(pct),
       opportunity_level |-> Opportunity(ProfitPercentage(item, sold))] :
      avg \in Round2(item.avg_donedeal_price),
      eavg \in Round2(EbayAvgEur(sold)),
      emin \in Round2(RMin(EurPrices(sold))),
      emax \in Round2(RMax(EurPrices(sold))),
      profit \in Round2(ProfitPotential(item, sold)),
      pct \in Round1(ProfitPercentage(item, sold)) }

\* lines 340-357: the rows of an item without sales
NoDataRowsZeroProfit(item) ==
    { [item_title |-> item.representative_title,
       search_term |-> item.search_term,
       donedeal_avg_price |-> avg,
       donedeal_min_price |-> item.min_donedeal_price,
       donedeal_max_price |-> item.max_donedeal_price,
       donedeal_listings |-> item.listing_count,
       donedeal_location |-> item.location,
       donedeal_url |-> item.url,
       ebay_avg_price_eur |-> None,
       ebay_min_price_eur |-> None,
       ebay_max_price_eur |-> None,
       ebay_sold_count |-> 0,
       profit_potential_eur |-> Some(0),
       profit_percentage |-> Some(0),
       opportunity_level |-> "LOW"] :
      avg \in Round2(item.avg_donedeal_price) }

NoDataRows(item) ==
    { [item_title |-> item.representative_title,
       search_term |-> item.search_term,
       donedeal_avg_price |-> avg,
       donedeal_min_price |-> item.min_donedeal_price,
       donedeal_max_price |-> item.max_donedeal_price,
       donedeal_listings |-> item.listing_count,
       donedeal_location |-> item.location,
       donedeal_url |-> item.url,
       ebay_avg_price_eur |-> None,
       ebay_min_price_eur |-> None,
       ebay_max_price_eur |-> None,
       ebay_sold_count |-> 0,
       profit_potential_eur |-> None,
       profit_percentage |-> None,
       opportunity_level |-> "NO DATA"] :
      avg \in Round2(item.avg_donedeal_price) }

\* line 367: fillna(-999) on the percentage column, in tenths
SortKeyNoneAsZero(row) ==
    IF row.profit_percentage = None THEN 0 ELSE row.profit_percentage[1]

SortKey(row) ==
    IF row.profit_percentage = None THEN -9990 ELSE row.profit_percentage[1]

\* line 368: sort_values(ascending=False) with the default sort, which fixes
\* no order among equal keys: the orders in which the keys descend
SortOrders(rows) ==
    { f \in [1..Len(rows) -> 1..Len(rows)] :
        /\ \A i, j \in 1..Len(rows) : i # j => f[i] # f[j]
        /\ \A i, j \in 1..Len(rows) :
               i < j => SortKey(rows[f[i]]) >= SortKey(rows[f[j]]) }

AnalysisOutcomes(domain) ==
    { [kind |-> "timeout"] }
      \cup { [kind |-> "loaded", items |-> page] :
               page \in UNION { [1..n -> AnalysisItems(domain)] :
                                  n \in 0..MaxDomainSold } }

\* scrape_sold_listings(item['search_term'], max_results=10): what line 279
\* may get back
SoldCollections ==
    { ScrapeSoldListings(<<a, b, c>>, 10, 1) :
        a \in AnalysisOutcomes("co.uk"),
        b \in AnalysisOutcomes("com"),
        c \in AnalysisOutcomes("ie") }

\* line 268
GroupItems ==
    /\ pc = "group"
    /\ unique_items' = group_similar_items(df)
    /\ pc' = "analyze"
    /\ UNCHANGED <<df, item_idx, sold_listings, analysis_results, results_df>>
    /\ UNCHANGED <<collectorVars, salesVars, normalizerVars,
                   priceVars, cleaningVars>>

\* lines 274-336: an item for which sold listings were found
AnalyzeItemWithSales ==
    /\ pc = "analyze"
    /\ item_idx <= Len(unique_items)
    /\ \E sold \in SoldCollections \ {<<>>} :
         /\ sold_listings' = sold
         /\ \E row \in SalesRows(unique_items[item_idx], sold) :
                analysis_results' = Append(analysis_results, row)
    /\ item_idx' = item_idx + 1
    /\ UNCHANGED <<df, unique_items, results_df, pc>>
    /\ UNCHANGED <<collectorVars, salesVars, normalizerVars,
                   priceVars, cleaningVars>>

\* lines 274-279, 338-357: an item for which none were found
AnalyzeItemNoData ==
    /\ pc = "analyze"
    /\ item_idx <= Len(unique_items)
    /\ <<>> \in SoldCollections
    /\ sold_listings' = <<>>
    /\ \E row \in NoDataRows(unique_items[item_idx]) :
           analysis_results' = Append(analysis_results, row)
    /\ item_idx' = item_idx + 1
    /\ UNCHANGED <<df, unique_items, results_df, pc>>
    /\ UNCHANGED <<collectorVars, salesVars, normalizerVars,
                   priceVars, cleaningVars>>

\* lines 363-388: the result frame is sorted and returned
RankResults ==
    /\ pc = "analyze"
    /\ item_idx > Len(unique_items)
    /\ analysis_results # <<>>
    /\ \E f \in SortOrders(analysis_results) :
           results_df' = Some([i \in 1..Len(analysis_results) |->
                                  analysis_results[f[i]]])
    /\ pc' = "done"
    /\ UNCHANGED <<df, unique_items, item_idx, sold_listings, analysis_results>>
    /\ UNCHANGED <<collectorVars, salesVars, normalizerVars,
                   priceVars, cleaningVars>>

\* lines 363-367: pd.DataFrame([]) has no column, and selecting
\* 'profit_percentage' from it raises KeyError
RankRaisesKeyError ==
    /\ pc = "analyze"
    /\ item_idx > Len(unique_items)
    /\ analysis_results = <<>>
    /\ pc' = "raised"
    /\ UNCHANGED <<df, unique_items, item_idx, sold_listings, analysis_results,
                   results_df>>
    /\ UNCHANGED <<collectorVars, salesVars, normalizerVars,
                   priceVars, cleaningVars>>

\* lines 255-272; the other two components stay idle
AnalysisInit ==
    /\ df \in CleanedFiles
    /\ unique_items = <<>>
    /\ item_idx = 1
    /\ sold_listings = <<>>
    /\ analysis_results = <<>>
    /\ results_df = None
    /\ pc = "group"
    /\ max_pages = None
    /\ listings = <<>>
    /\ seen_urls = {}
    /\ page_num = 0
    /\ new_listings = 0
    /\ listing_elements = <<>>
    /\ status = "idle"
    /\ returned = None
    /\ loads = 0
    /\ skipped = {}
    /\ max_results = 0
    /\ domain_idx = 1
    /\ all_sold_items = <<>>
    /\ queried = <<>>
    /\ parsed = <<>>
    /\ failed = {}
    /\ sales_pc = "idle"
    /\ raw_title = <<>>
    /\ first_key = <<>>
    /\ second_key = <<>>
    /\ price_str = <<>>
    /\ price_value = <<>>
    /\ search_keyword = <<>>
    /\ data = <<>>
    /\ clean_df = <<>>
    /\ clean_pc = "idle"

AnalysisNext ==
    \/ GroupItems
    \/ AnalyzeItemWithSales
    \/ AnalyzeItemNoData
    \/ RankResults
    \/ RankRaisesKeyError

\* analyze_profit_opportunities on every cleaned file, against every
\* behaviour of the sale domains
SpecAnalysis == AnalysisInit /\ [][AnalysisNext]_vars

\* ------------------------------------------------------------------------
\* normalize_product_name applied to a title and again to its own result
\* ------------------------------------------------------------------------
\* The words a title of the model is made of
TitleWords ==
    { <<"n", "n", "e", "w", "e", "w">>,
      <<"r", "b", "l", "u", "e", "e", "d">>,
      <<"c", "o", "a", "t">>,
      <<"i", "P", "h", "o", "n", "e">>,
      <<"1", "6">>,
      <<"P", "r", "o">>,
      <<"1", "2", "8", "G", "B">>,
      <<"R", "e", "d">> }

\* ' '.join(words)
RECURSIVE JoinWords(_)
JoinWords(words) ==
    IF words = <<>> THEN <<>>
    ELSE IF Len(words) = 1 THEN Head(words)
    ELSE Head(words) \o <<" ">> \o JoinWords(Tail(words))

Titles ==
    { JoinWords(words) :
        words \in UNION { [1..n -> TitleWords] : n \in 0..MaxTitleWords } }

\* key = normalize_product_name(title)
NormalizeTitle ==
    /\ first_key = None
    /\ first_key' = Some(normalize_product_name(raw_title))
    /\ UNCHANGED <<raw_title, second_key>>
    /\ UNCHANGED <<collectorVars, salesVars, analysisVars, priceVars,
                   cleaningVars>>

\* normalize_product_name(key)
NormalizeKey ==
    /\ first_key # None
    /\ second_key = None
    /\ second_key' = Some(normalize_product_name(first_key[1]))
    /\ UNCHANGED <<raw_title, first_key>>
    /\ UNCHANGED <<collectorVars, salesVars, analysisVars, priceVars,
                   cleaningVars>>

NormalizerInit ==
    /\ raw_title \in Titles
    /\ first_key = None
    /\ second_key = None
    /\ max_pages = None
    /\ listings = <<>>
    /\ seen_urls = {}
    /\ page_num = 0
    /\ new_listings = 0
    /\ listing_elements = <<>>
    /\ status = "idle"
    /\ returned = None
    /\ loads = 0
    /\ skipped = {}
    /\ max_results = 0
    /\ domain_idx = 1
    /\ all_sold_items = <<>>
    /\ queried = <<>>
    /\ parsed = <<>>
    /\ failed = {}
    /\ sales_pc = "idle"
    /\ df = <<>>
    /\ unique_items = <<>>
    /\ item_idx = 1
    /\ sold_listings = <<>>
    /\ analysis_results = <<>>
    /\ results_df = None
    /\ pc = "idle"
    /\ price_str = <<>>
    /\ price_value = <<>>
    /\ search_keyword = <<>>
    /\ data = <<>>
    /\ clean_df = <<>>
    /\ clean_pc = "idle"

NormalizerNext ==
    \/ NormalizeTitle
    \/ NormalizeKey

\* normalize_product_name on every title of the model, and on every key
SpecNormalizer == NormalizerInit /\ [][NormalizerNext]_vars

\* ------------------------------------------------------------------------
\* clean_price (utils/clean_listings.py)
\* ------------------------------------------------------------------------
Letters == { UpperLetters[k] : k \in 1..26 } \cup { LowerLetters[k] : k \in 1..26 }

\* The part of a float literal before or after the point: empty, or digits
\* with single underscores between them
IsDigitGroup(t) ==
    \/ t = <<>>
    \/ /\ IsDigit(t[1])
       /\ IsDigit(t[Len(t)])
       /\ \A i \in 1..Len(t) : IsDigit(t[i]) \/ t[i] = "_"
       /\ \A i \in 1..(Len(t) - 1) : ~(t[i] = "_" /\ t[i + 1] = "_")

RECURSIVE Pow10(_)
Pow10(k) == IF k = 0 THEN 1 ELSE 10 * Pow10(k - 1)

\* float(t) of a stripped, non-empty text made of digits, signs, points,
\* underscores and other symbols: None for ValueError, else the value as an
\* exact quotient
ParseFloat(t) ==
    LET signed == t[1] \in {"+", "-"}
        body == IF signed THEN Tail(t) ELSE t
        point == Find(body, <<".">>)
        whole == IF point = 0 THEN body ELSE SubSeq(body, 1, point - 1)
        frac == IF point = 0 THEN <<>> ELSE SubSeq(body, point + 1, Len(body))
        wholeDigits == RemoveChars(whole, {"_"})
        fracDigits == RemoveChars(frac, {"_"})
        magnitude == DigitsToInt(wholeDigits \o fracDigits)
    IN IF /\ IsDigitGroup(whole)
          /\ IsDigitGroup(frac)
          /\ wholeDigits \o fracDigits # <<>>
       THEN Some(Reduce(<<IF t[1] = "-" THEN -magnitude ELSE magnitude,
                          Pow10(Len(fracDigits))>>))
       ELSE None

\* clean_price, lines 6-14
clean_price(text) ==
    LET no_symbols == RemoveChars(text, {"€", "$", "£", ","})
        price_clean == Strip(RemoveChars(no_symbols, Letters))
    IN IF price_clean = <<>> THEN None ELSE ParseFloat(price_clean)

\* The pieces a price string of the model is made of
PriceTokens ==
    { <<"€">>,
      <<"1">>,
      <<",">>,
      <<"2", "0">>,
      <<" ", "t", "o", " ">>,
      <<"F", "r", "e", "e">>,
      <<".">>,
      <<"5">>,
      <<" ", "o", "n", "o">>,
      <<"-">>,
      <<"N", "/", "A">> }

RECURSIVE Concat(_)
Concat(parts) ==
    IF parts = <<>> THEN <<>> ELSE Head(parts) \o Concat(Tail(parts))

PriceStrings ==
    { Concat(parts) :
        parts \in UNION { [1..n -> PriceTokens] : n \in 0..MaxPriceTokens } }

\* numeric = clean_price(price_str)
CleanPrice ==
    /\ price_value = None
    /\ price_value' = Some(clean_price(price_str))
    /\ UNCHANGED price_str
    /\ UNCHANGED <<collectorVars, salesVars, analysisVars, normalizerVars,
                   cleaningVars>>

PriceInit ==
    /\ price_str \in PriceStrings
    /\ price_value = None
    /\ max_pages = None
    /\ listings = <<>>
    /\ seen_urls = {}
    /\ page_num = 0
    /\ new_listings = 0
    /\ listing_elements = <<>>
    /\ status = "idle"
    /\ returned = None
    /\ loads = 0
    /\ skipped = {}
    /\ max_results = 0
    /\ domain_idx = 1
    /\ all_sold_items = <<>>
    /\ queried = <<>>
    /\ parsed = <<>>
    /\ failed = {}
    /\ sales_pc = "idle"
    /\ df = <<>>
    /\ unique_items = <<>>
    /\ item_idx = 1
    /\ sold_listings = <<>>
    /\ analysis_results = <<>>
    /\ results_df = None
    /\ pc = "idle"
    /\ raw_title = <<>>
    /\ first_key = <<>>
    /\ second_key = <<>>
    /\ search_keyword = <<>>
    /\ data = <<>>
    /\ clean_df = <<>>
    /\ clean_pc = "idle"

PriceNext == CleanPrice

\* clean_price on every price string of the model
SpecPrice == PriceInit /\ [][PriceNext]_vars

\* ------------------------------------------------------------------------
\* is_relevant_listing, remove_duplicates and clean_listings
\* (utils/clean_listings.py)
\* ------------------------------------------------------------------------
\* get_exclusion_patterns, lines 16-39: each pattern is a group of words, a
\* word matching between two word boundaries
exclusion_patterns ==
    <<
      { <<"c", "a", "r">>, <<"b", "m", "w">>,
        <<"m", "e", "r", "c", "e", "d", "e", "s">>, <<"a", "u", "d", "i">>,
        <<"v", "o", "l", "k", "s", "w", "a", "g", "e", "n">>,
        <<"f", "o", "r", "d">>, <<"t", "o", "y", "o", "t", "a">>,
        <<"h", "o", "n", "d", "a">>, <<"n", "i", "s", "s", "a", "n">>,
        <<"h", "y", "u", "n", "d", "a", "i">>, <<"k", "i", "a">>,
        <<"m", "a", "z", "d", "a">>, <<"v", "o", "l", "v", "o">>,
        <<"p", "e", "u", "g", "e", "o", "t">>,
        <<"r", "e", "n", "a", "u", "l", "t">>,
        <<"c", "i", "t", "r", "o", "e", "n">>, <<"o", "p", "e", "l">>,
        <<"s", "k", "o", "d", "a">>, <<"s", "e", "a", "t">>,
        <<"f", "i", "a", "t">>,
        <<"a", "l", "f", "a", " ", "r", "o", "m", "e", "o">>,
        <<"p", "o", "r", "s", "c", "h", "e">>,
        <<"f", "e", "r", "r", "a", "r", "i">>,
        <<"l", "a", "m", "b", "o", "r", "g", "h", "i", "n", "i">>,
        <<"b", "e", "n", "t", "l", "e", "y">>,
        <<"r", "o", "l", "l", "s", " ", "r", "o", "y", "c", "e">> },
      { <<"s", "u", "v">>, <<"s", "e", "d", "a", "n">>,
        <<"h", "a", "t", "c", "h", "b", "a", "c", "k">>,
        <<"e", "s", "t", "a", "t", "e">>, <<"c", "o", "u", "p", "e">>,
        <<"c", "o", "n", "v", "e", "r", "t", "i", "b", "l", "e">>,
        <<"d", "i", "e", "s", "e", "l">>, <<"p", "e", "t", "r", "o", "l">>,
        <<"h", "y", "b", "r", "i", "d">>,
        <<"e", "l", "e", "c", "t", "r", "i", "c">> },
      { <<"a", "u", "t", "o", "m", "a", "t", "i", "c">>,
        <<"m", "a", "n", "u", "a", "l">>,
        <<"t", "r", "a", "n", "s", "m", "i", "s", "s", "i", "o", "n">>,
        <<"e", "n", "g", "i", "n", "e">>, <<"m", "o", "t">>,
        <<"n", "c", "t">>, <<"t", "a", "x">>,
        <<"m", "i", "l", "e", "a", "g", "e">>, <<"k", "m">>,
        <<"m", "i", "l", "e", "s">> },
      { <<"c", "a", "s", "e">>, <<"c", "o", "v", "e", "r">>,
        <<"s", "c", "r", "e", "e", "n", " ", "p", "r", "o", "t", "e", "c", "t", "o", "r">>,
        <<"c", "h", "a", "r", "g", "e", "r">>, <<"c", "a", "b", "l", "e">>,
        <<"s", "t", "a", "n", "d">>, <<"h", "o", "l", "d", "e", "r">> },
      { <<"h", "e", "a", "d", "p", "h", "o", "n", "e", "s">>,
        <<"e", "a", "r", "p", "h", "o", "n", "e", "s">>,
        <<"s", "p", "e", "a", "k", "e", "r">>,
        <<"p", "o", "w", "e", "r", " ", "b", "a", "n", "k">>,
        <<"a", "d", "a", "p", "t", "e", "r">> },
      { <<"i", "p", "a", "d">>, <<"t", "a", "b", "l", "e", "t">>,
        <<"m", "a", "c", "b", "o", "o", "k">>,
        <<"l", "a", "p", "t", "o", "p">>,
        <<"c", "o", "m", "p", "u", "t", "e", "r">>, <<"t", "v">>,
        <<"t", "e", "l", "e", "v", "i", "s", "i", "o", "n">>,
        <<"m", "o", "n", "i", "t", "o", "r">>,
        <<"c", "a", "m", "e", "r", "a">>, <<"d", "r", "o", "n", "e">> },
      { <<"h", "o", "u", "s", "e">>,
        <<"a", "p", "a", "r", "t", "m", "e", "n", "t">>,
        <<"f", "l", "a", "t">>, <<"r", "o", "o", "m">>,
        <<"p", "r", "o", "p", "e", "r", "t", "y">>, <<"r", "e", "n", "t">>,
        <<"l", "e", "a", "s", "e">>,
        <<"m", "o", "r", "t", "g", "a", "g", "e">> },
      { <<"j", "o", "b">>, <<"w", "o", "r", "k">>,
        <<"s", "e", "r", "v", "i", "c", "e">>,
        <<"r", "e", "p", "a", "i", "r">>,
        <<"i", "n", "s", "t", "a", "l", "l", "a", "t", "i", "o", "n">>,
        <<"d", "e", "l", "i", "v", "e", "r", "y">> },
      { <<"d", "o", "g">>, <<"c", "a", "t">>, <<"h", "o", "r", "s", "e">>,
        <<"p", "u", "p", "p", "y">>, <<"k", "i", "t", "t", "e", "n">>,
        <<"p", "e", "t">>, <<"a", "n", "i", "m", "a", "l">> }
    >>

\* lines 61-66
iphone_exclusions ==
    <<
      { <<"c", "a", "s", "e">>, <<"c", "o", "v", "e", "r">>,
        <<"s", "c", "r", "e", "e", "n", " ", "p", "r", "o", "t", "e", "c", "t", "o", "r">> },
      { <<"i", "p", "a", "d">>, <<"t", "a", "b", "l", "e", "t">> },
      { <<"c", "h", "a", "r", "g", "e", "r">>, <<"c", "a", "b", "l", "e">>,
        <<"a", "d", "a", "p", "t", "e", "r">> },
      { <<"h", "e", "a", "d", "p", "h", "o", "n", "e", "s">>,
        <<"e", "a", "r", "p", "h", "o", "n", "e", "s">> }
    >>

\* \b before position i of t
WordBoundary(t, i) ==
    (i > 1 /\ IsWordChar(t[i - 1])) # (i <= Len(t) /\ IsWordChar(t[i]))

\* re.search(pattern, t) for the pattern of a group of words
Search(group, t) ==
    \E w \in group, i \in 1..Len(t) :
        /\ MatchesAt(t, w, i)
        /\ WordBoundary(t, i)
        /\ WordBoundary(t, i + Len(w))

\* is_relevant_listing without the loops over the patterns
KeywordInTitle(text, keyword, patterns) ==
    /\ text # <<>>
    /\ keyword # <<>>
    /\ Contains(Lower(text), Lower(keyword))

\* is_relevant_listing, lines 41-71
is_relevant_listing(text, keyword, patterns) ==
    LET title_lower == Lower(text)
        keyword_lower == Lower(keyword)
    IN /\ text # <<>>
       /\ keyword # <<>>
       /\ Contains(title_lower, keyword_lower)
       /\ \A k \in 1..Len(patterns) : ~Search(patterns[k], title_lower)
       /\ keyword_lower = <<"i", "p", "h", "o", "n", "e">> =>
              \A k \in 1..Len(iphone_exclusions) :
                  ~Search(iphone_exclusions[k], title_lower)

required_columns == {"title", "price", "location", "url"}

\* The rows a DataFrame handed to clean_listings may hold
RawRows ==
    { [title |-> <<" ", " ", "I", "P", "H", "O", "N", "E", " ", "c", "a", "s", "e", " ", " ">>,
       price |-> <<"€", "2", "0">>,
       location |-> "Dublin", url |-> "url-1"],
      [title |-> <<"i", "P", "h", "o", "n", "e", " ", "1", "6">>,
       price |-> <<"€", "1", ",", "2", "0", "0">>,
       location |-> "Dublin", url |-> "url-2"],
      [title |-> <<"i", "p", "h", "o", "n", "e", " ", "1", "6", " ">>,
       price |-> <<"1", "0", "0", " ", "t", "o", " ", "2", "0", "0">>,
       location |-> "Dublin", url |-> "url-2"],
      [title |-> <<"R", "e", "d", " ", "C", "o", "a", "t">>,
       price |-> <<"F", "r", "e", "e">>,
       location |-> "Dublin", url |-> "url-4"],
      [title |-> <<" ", " ", " ">>,
       price |-> <<"€", "5">>,
       location |-> "Dublin", url |-> "url-5"],
      [title |-> <<"C", "a", "r", " ", "c", "o", "a", "t">>,
       price |-> <<"€", "5", "0", " ", "o", "n", "o">>,
       location |-> "Dublin", url |-> "url-6"],
      [title |-> <<"i", "P", "h", "o", "n", "e", " ", "1", "5", " ", "c", "a", "s", "e", "s">>,
       price |-> <<"€", "9", "9", ".", "9", "9">>,
       location |-> "Dublin", url |-> "url-7"] }

\* A DataFrame with the given columns
Frame(columns, rows) ==
    [columns |-> columns,
     rows |-> [i \in 1..Len(rows) |-> [c \in columns |-> rows[i][c]]]]

Keywords == { <<"i", "p", "h", "o", "n", "e">>, <<"C", "o", "a", "t">>, <<>> }

\* lines 121-125: the text columns are stripped, rows without a title go
StripColumns(row) ==
    [c \in DOMAIN row |->
        IF c \in {"title", "price"} THEN Strip(row[c]) ELSE row[c]]

RECURSIVE Select(_, _)
Select(rows, keep) ==
    IF rows = <<>> THEN <<>>
    ELSE IF Head(rows) \in keep THEN <<Head(rows)>> \o Select(Tail(rows), keep)
    ELSE Select(Tail(rows), keep)

\* the rows at the positions kept, in frame order
RECURSIVE RowsAt(_, _, _)
RowsAt(rows, kept, i) ==
    IF i > Len(rows) THEN <<>>
    ELSE IF i \in kept THEN <<rows[i]>> \o RowsAt(rows, kept, i + 1)
    ELSE RowsAt(rows, kept, i + 1)

\* df.drop_duplicates(subset=[column], keep='first'), keys being the column
DropDuplicates(rows, keys) ==
    RowsAt(rows,
           { i \in 1..Len(rows) : \A j \in 1..(i - 1) : keys[j] # keys[i] },
           1)

\* remove_duplicates, lines 73-86
remove_duplicates(rows) ==
    IF Len(rows) = 0 THEN rows
    ELSE LET by_url == DropDuplicates(rows,
                                      [i \in 1..Len(rows) |-> rows[i].url])
             title_clean == [i \in 1..Len(by_url) |->
                                Strip(Lower(by_url[i].title))]
         IN DropDuplicates(by_url, title_clean)

\* lines 113-118: a required column is missing, the frame goes back as it is
ReturnUnvalidated ==
    /\ clean_pc = "start"
    /\ ~(required_columns \subseteq data.columns)
    /\ clean_df' = data.rows
    /\ clean_pc' = "returned"
    /\ UNCHANGED <<search_keyword, data>>
    /\ UNCHANGED <<collectorVars, salesVars, analysisVars, normalizerVars,
                   priceVars>>

\* lines 120-126
RemoveEmptyTitles ==
    /\ clean_pc = "start"
    /\ required_columns \subseteq data.columns
    /\ LET stripped == [i \in 1..Len(data.rows) |-> StripColumns(data.rows[i])]
       IN clean_df' = Select(stripped, { row \in { stripped[i] : i \in 1..Len(stripped) } :
                                           row.title # <<>> })
    /\ clean_pc' = "titled"
    /\ UNCHANGED <<search_keyword, data>>
    /\ UNCHANGED <<collectorVars, salesVars, analysisVars, normalizerVars,
                   priceVars>>

\* lines 128-134
FilterRelevant ==
    /\ clean_pc = "titled"
    /\ clean_df' = Select(clean_df,
                          { row \in { clean_df[i] : i \in 1..Len(clean_df) } :
                              is_relevant_listing(row.title, search_keyword,
                                                  exclusion_patterns) })
    /\ clean_pc' = "relevant"
    /\ UNCHANGED <<search_keyword, data>>
    /\ UNCHANGED <<collectorVars, salesVars, analysisVars, normalizerVars,
                   priceVars>>

\* lines 136-138
RemoveDuplicates ==
    /\ clean_pc = "relevant"
    /\ clean_df' = remove_duplicates(clean_df)
    /\ clean_pc' = "deduplicated"
    /\ UNCHANGED <<search_keyword, data>>
    /\ UNCHANGED <<collectorVars, salesVars, analysisVars, normalizerVars,
                   priceVars>>

\* lines 140-144: the numeric_price column, then the rows with a price > 0
ValidatePrices ==
    /\ clean_pc = "deduplicated"
    /\ LET priced == [i \in 1..Len(clean_df) |->
                         [c \in DOMAIN clean_df[i] \cup {"numeric_price"} |->
                             IF c = "numeric_price"
                             THEN clean_price(clean_df[i].price)
                             ELSE clean_df[i][c]]]
       IN clean_df' = Select(priced,
                             { row \in { priced[i] : i \in 1..Len(priced) } :
                                 /\ row.numeric_price # None
                                 /\ row.numeric_price[1][1] > 0 })
    /\ clean_pc' = "priced"
    /\ UNCHANGED <<search_keyword, data>>
    /\ UNCHANGED <<collectorVars, salesVars, analysisVars, normalizerVars,
                   priceVars>>

\* lines 146-148
ReturnNoListings ==
    /\ clean_pc = "priced"
    /\ Len(clean_df) = 0
    /\ clean_pc' = "returned"
    /\ UNCHANGED <<search_keyword, data, clean_df>>
    /\ UNCHANGED <<collectorVars, salesVars, analysisVars, normalizerVars,
                   priceVars>>

\* lines 150-168: sort_values(by="numeric_price"); rows of one price come
\* out in either order
SortAndReturn ==
    /\ clean_pc = "priced"
    /\ Len(clean_df) # 0
    /\ \E f \in [1..Len(clean_df) -> 1..Len(clean_df)] :
         /\ \A i, j \in 1..Len(clean_df) : i # j => f[i] # f[j]
         /\ \A i, j \in 1..Len(clean_df) :
                i < j => RLeq(clean_df[f[i]].numeric_price[1],
                              clean_df[f[j]].numeric_price[1])
         /\ clean_df' = [i \in 1..Len(clean_df) |-> clean_df[f[i]]]
    /\ clean_pc' = "returned"
    /\ UNCHANGED <<search_keyword, data>>
    /\ UNCHANGED <<collectorVars, salesVars, analysisVars, normalizerVars,
                   priceVars>>

\* lines 88-111: a DataFrame argument is copied
CleaningInit ==
    /\ search_keyword \in Keywords
    /\ data \in { Frame(columns, rows) :
                    columns \in { required_columns, required_columns \ {"price"} },
                    rows \in UNION { [1..n -> RawRows] : n \in 0..MaxRawRows } }
    /\ clean_df = <<>>
    /\ clean_pc = "start"
    /\ max_pages = None
    /\ listings = <<>>
    /\ seen_urls = {}
    /\ page_num = 0
    /\ new_listings = 0
    /\ listing_elements = <<>>
    /\ status = "idle"
    /\ returned = None
    /\ loads = 0
    /\ skipped = {}
    /\ max_results = 0
    /\ domain_idx = 1
    /\ all_sold_items = <<>>
    /\ queried = <<>>
    /\ parsed = <<>>
    /\ failed = {}
    /\ sales_pc = "idle"
    /\ df = <<>>
    /\ unique_items = <<>>
    /\ item_idx = 1
    /\ sold_listings = <<>>
    /\ analysis_results = <<>>
    /\ results_df = None
    /\ pc = "idle"
    /\ raw_title = <<>>
    /\ first_key = <<>>
    /\ second_key = <<>>
    /\ price_str = <<>>
    /\ price_value = <<>>

CleaningNext ==
    \/ ReturnUnvalidated
    \/ RemoveEmptyTitles
    \/ FilterRelevant
    \/ RemoveDuplicates
    \/ ValidatePrices
    \/ ReturnNoListings
    \/ SortAndReturn

\* clean_listings on every frame and keyword of the model
SpecCleaning == CleaningInit /\ [][CleaningNext]_vars

\* ------------------------------------------------------------------------
\* Properties of extract_listings
\* ------------------------------------------------------------------------
Urls(ls) == { ls[i].url : i \in 1..Len(ls) }

\* C1: whatever pages the source returned, the list never holds two records
\* with the same url, and every url is canonical: a site-relative href was
\* made absolute, so a relative and an absolute form of one address count as
\* the same url across the whole run.
C1_NoDuplicateUrls ==
    /\ \A i, j \in 1..Len(listings) :
           i # j => listings[i].url # listings[j].url
    /\ \A i \in 1..Len(listings) : ~StartsWithSlash(listings[i].url)
    /\ returned # None =>
           Cardinality(Urls(returned[1])) = Len(returned[1])

\* A later page repeated, among new urls, the canonical url of an address
\* recorded on an earlier page, and a missing href besides.
C1_Witness ==
    /\ page_num >= 2
    /\ new_listings > 0
    /\ <<SiteRoot, "/", "a">> \in skipped
    /\ \E i \in 1..(Len(listings) - new_listings) :
           listings[i].url = <<SiteRoot, "/", "a">>
    /\ <<NA>> \in Urls(listings)

\* C2: with a page cap k at most k pages are loaded; the cap is tested
\* before each request, so once k pages are loaded the only step left is the
\* stop "capped" (whether or not the last page brought new listings), and
\* k = 0 loads nothing and returns the empty list.
C2_PageCap ==
    /\ max_pages # None => loads <= max_pages[1]
    /\ status = "capped" =>
           /\ max_pages # None
           /\ loads = max_pages[1]
           /\ returned = Some(listings)
    /\ (max_pages # None /\ status = "running" /\ loads = max_pages[1]) =>
           /\ ENABLED ReachedMaxPages
           /\ ~ENABLED (PageLoadTimeout \/ NoListingsFound \/ ScrapePage)
    /\ (max_pages = Some(0) /\ status # "running") =>
           /\ status = "capped"
           /\ loads = 0
           /\ returned = Some(<<>>)

\* Two pages were loaded under a cap of two, both brought new listings, and
\* the run stopped capped.
C2_Witness ==
    /\ max_pages = Some(2)
    /\ status = "capped"
    /\ loads = 2
    /\ new_listings > 0
    /\ Len(listings) > new_listings

\* C3: without a page cap the run ends, however long the source keeps
\* serving content it served before: a page without any url not yet seen
\* stops the run as "no-new-data", every page the run continued after did
\* bring a new url, and after the stop no page is requested.
C3_NoNewDataTerminates ==
    /\ (max_pages = None) => <>(status # "running" /\ returned # None)
    /\ [](status = "running" /\ loads > 0 => new_listings > 0)
    /\ [](status = "no-new-data" =>
              new_listings = 0 /\ returned = Some(listings))
    /\ [][status = "no-new-data" => loads' = loads /\ status' = status]_vars

\* An uncapped run loaded pages with new urls, then a page that only
\* repeated urls, and stopped there.
C3_Witness ==
    /\ max_pages = None
    /\ status = "no-new-data"
    /\ loads >= 3
    /\ skipped # {}
    /\ Len(listings) >= 2

Statuses == {"running", "capped", "load-failed", "exhausted", "no-new-data"}

\* C4: a page whose results container never appears, and a page without
\* listing elements, end the run normally: nothing is raised, and what is
\* returned is exactly the list as it stood before that page was requested.
C4_StopKeepsListings ==
    /\ [](status \in Statuses)
    /\ [](status # "running" => returned # None)
    /\ [][(status = "running" /\ status' \in {"load-failed", "exhausted"})
            => (listings' = listings /\ returned' = Some(listings))]_vars

\* The third page timed out after two pages of listings were collected.
C4_Witness ==
    /\ status = "load-failed"
    /\ loads = 3
    /\ page_num = 2
    /\ Len(listings) >= 2
    /\ returned = Some(listings)

\* ------------------------------------------------------------------------
\* Properties of scrape_sold_listings
\* ------------------------------------------------------------------------
DomainIndex(d) == CHOOSE i \in 1..Len(ebay_domains) : ebay_domains[i] = d

\* C6: a timeout or any other failure of one domain's query empties that
\* domain's contribution only: the domains are queried once each, in the
\* configured order, nothing is raised, and the returned collection holds
\* exactly the records parsed from the domains that answered, in domain
\* order.
C6_DomainFailureIsLocal ==
    /\ sales_pc # "raised"
    /\ queried = SubSeq(ebay_domains, 1, domain_idx - 1)
    /\ sales_pc = "returned" => queried = ebay_domains
    /\ \A i \in 1..Len(parsed) :
           /\ ebay_domains[i] \in failed => parsed[i] = {}
           /\ \A r \in parsed[i] :
                  \E k \in 1..Len(all_sold_items) : all_sold_items[k] = r
    /\ \A k \in 1..Len(all_sold_items) :
           /\ all_sold_items[k].domain \notin failed
           /\ all_sold_items[k] \in parsed[DomainIndex(all_sold_items[k].domain)]
    /\ \A k, l \in 1..Len(all_sold_items) :
           k < l => DomainIndex(all_sold_items[k].domain)
                        <= DomainIndex(all_sold_items[l].domain)

\* The middle domain failed; the first and the last contributed records and
\* the collection was returned.
C6_Witness ==
    /\ sales_pc = "returned"
    /\ failed = {"com"}
    /\ parsed[1] # {}
    /\ parsed[3] # {}
    /\ \E k \in 1..Len(all_sold_items) : all_sold_items[k].domain = "co.uk"
    /\ \E k \in 1..Len(all_sold_items) : all_sold_items[k].domain = "ie"

\* ------------------------------------------------------------------------
\* Properties of analyze_profit_opportunities
\* ------------------------------------------------------------------------
\* The row appended last, the aggregate it was computed for and the sale
\* records collected for it (sold_listings)
HasLast == pc \in {"analyze", "done"} /\ analysis_results # <<>>
LastRow == analysis_results[Len(analysis_results)]
LastItem == unique_items[item_idx - 1]

\* C5: a run that ends with no product aggregate or no sale match completes
\* without an exception, and with no aggregate at all the ranking step hands
\* back an empty result table.
C5_EmptyRunCompletes ==
    /\ pc # "raised"
    /\ (pc \notin {"group", "analyze"} /\ unique_items = <<>>) =>
           results_df = Some(<<>>)

IsNoData(row) == row.opportunity_level = "NO DATA"

\* C7: in the ranked output no row without a percentage stands before a row
\* with one, the rows with a percentage descend by it, and the output holds
\* the rows produced, each once.
C7_NoDataRankedLast ==
    pc = "done" =>
        LET ranked == results_df[1] IN
        /\ Len(ranked) = Len(analysis_results)
        /\ \A row \in { analysis_results[i] : i \in 1..Len(ranked) } :
               Cardinality({ i \in 1..Len(ranked) : ranked[i] = row })
                 = Cardinality({ i \in 1..Len(ranked) :
                                   analysis_results[i] = row })
        /\ \A i, j \in 1..Len(ranked) :
               i < j =>
                 /\ ~(ranked[i].profit_percentage = None
                        /\ ranked[j].profit_percentage # None)
                 /\ (ranked[i].profit_percentage # None
                        /\ ranked[j].profit_percentage # None)
                      => ranked[i].profit_percentage[1]
                           >= ranked[j].profit_percentage[1]

\* A row without data was produced before a row with a negative percentage,
\* and the ranking put the numeric row first.
C7_Witness ==
    /\ pc = "done"
    /\ Len(analysis_results) = 2
    /\ analysis_results[1].profit_percentage = None
    /\ analysis_results[2].profit_percentage # None
    /\ analysis_results[2].profit_percentage[1] < 0
    /\ results_df[1][1] = analysis_results[2]

\* The sum of price * rate over the sale records, in hundredths of a cent
RECURSIVE ConvertedTotal(_)
ConvertedTotal(sold) ==
    IF sold = <<>> THEN 0
    ELSE Head(sold).price
           * (CASE Head(sold).currency = "£" -> 115
                [] Head(sold).currency = "$" -> 85
                [] OTHER -> 100)
           + ConvertedTotal(Tail(sold))

\* mean(converted prices) - source_mean, in cents
ExactProfit(item, sold) ==
    Reduce(<<ConvertedTotal(sold) * item.avg_donedeal_price[2]
               - 100 * Len(sold) * item.avg_donedeal_price[1],
             100 * Len(sold) * item.avg_donedeal_price[2]>>)

\* profit / source_mean * 100
ExactPercentage(item, sold) ==
    RDiv(RMulInt(ExactProfit(item, sold), 100), item.avg_donedeal_price)

IsNearest(n, q) == 2 * Abs(n * q[2] - q[1]) <= q[2]

\* C8 as stated: the reported profit amount is mean(converted prices) -
\* source_mean and the reported percentage is profit / source_mean * 100,
\* which is 0 when source_mean is 0.
C8_ExactProfitReported ==
    (HasLast /\ sold_listings # <<>>) =>
        /\ <<LastRow.profit_potential_eur[1], 1>>
             = ExactProfit(LastItem, sold_listings)
        /\ Reduce(<<LastRow.profit_percentage[1], 10>>)
             = IF LastItem.avg_donedeal_price[1] = 0 THEN <<0, 1>>
               ELSE ExactPercentage(LastItem, sold_listings)

\* C8 (amended): the reported profit amount is mean(converted prices) -
\* source_mean rounded to the cent, and the reported percentage is the
\* unrounded profit / source_mean * 100 rounded to one decimal, 0 when
\* source_mean is not positive; the rates are 1.15, 0.85 and 1, and 1 for an
\* unknown symbol; source_mean 100 and one sale of 150 in the reference
\* currency report 50 and 50.0, tier EXCELLENT.
C8_RoundedProfitReported ==
    /\ ConversionRate("unknown") = 100
    /\ (HasLast /\ sold_listings # <<>>) =>
        /\ LastRow.profit_potential_eur # None
        /\ IsNearest(LastRow.profit_potential_eur[1],
                     ExactProfit(LastItem, sold_listings))
        /\ LastRow.profit_percentage # None
        /\ IF LastItem.avg_donedeal_price[1] > 0
           THEN IsNearest(LastRow.profit_percentage[1],
                          RMulInt(ExactPercentage(LastItem, sold_listings), 10))
           ELSE LastRow.profit_percentage[1] = 0
        /\ (/\ LastItem.avg_donedeal_price = <<10000, 1>>
            /\ Len(sold_listings) = 1
            /\ sold_listings[1].price = 15000
            /\ sold_listings[1].currency = "€")
           => /\ LastRow.profit_potential_eur = Some(5000)
              /\ LastRow.profit_percentage = Some(500)
              /\ LastRow.opportunity_level = "EXCELLENT"

\* Sales in two currencies were averaged against a positive source mean, and
\* neither reported figure is the exact quotient.
C8_Witness ==
    /\ HasLast
    /\ Len(sold_listings) >= 2
    /\ \E i, j \in 1..Len(sold_listings) :
           sold_listings[i].currency # sold_listings[j].currency
    /\ LastItem.avg_donedeal_price[1] > 0
    /\ <<LastRow.profit_potential_eur[1], 1>>
         # ExactProfit(LastItem, sold_listings)
    /\ Reduce(<<LastRow.profit_percentage[1], 10>>)
         # ExactPercentage(LastItem, sold_listings)

\* the tier of the fixed thresholds for a percentage given in tenths
TierOfReported(tenths) ==
    IF tenths >= 500 THEN "EXCELLENT"
    ELSE IF tenths >= 250 THEN "GOOD"
    ELSE IF tenths >= 100 THEN "MODERATE"
    ELSE "LOW"

\* C9: a row with sale data carries the tier that the thresholds 50 / 25 / 10
\* assign to the percentage the row reports.
C9_TierMatchesReportedPercentage ==
    (HasLast /\ sold_listings # <<>>) =>
        LastRow.opportunity_level
          = TierOfReported(LastRow.profit_percentage[1])

\* the rows of the file that normalize to a key
FrameRowsWithKey(key) ==
    { i \in 1..Len(df) : normalized_name[df[i].title] = key }

\* C10: one row is emitted per aggregate; its tier is "NO DATA", with every
\* external figure and both profit figures absent, exactly when no sale
\* record was collected for the aggregate; such a row still carries the
\* aggregate's source figures, and a row of any other tier counts at least
\* one sale record.
C10_NoDataIffNoSales ==
    /\ pc \in {"analyze", "done"} => Len(analysis_results) = item_idx - 1
    /\ pc = "done" => Len(analysis_results) = Len(unique_items)
    /\ HasLast =>
         /\ IsNoData(LastRow) <=> sold_listings = <<>>
         /\ LastRow.ebay_sold_count = Len(sold_listings)
         /\ LastRow.search_term = LastItem.search_term
         /\ LastRow.donedeal_listings
              = Cardinality(FrameRowsWithKey(LastRow.search_term))
         /\ LastRow.donedeal_listings >= 1
         /\ LastRow.donedeal_min_price = LastItem.min_donedeal_price
         /\ LastRow.donedeal_max_price = LastItem.max_donedeal_price
         /\ IsNearest(LastRow.donedeal_avg_price, LastItem.avg_donedeal_price)
         /\ LastRow.donedeal_min_price <= LastRow.donedeal_avg_price
         /\ LastRow.donedeal_avg_price <= LastRow.donedeal_max_price
    /\ \A i \in 1..Len(analysis_results) :
         LET row == analysis_results[i] IN
         /\ row.search_term = unique_items[i].search_term
         /\ IF IsNoData(row)
            THEN /\ row.ebay_avg_price_eur = None
                 /\ row.ebay_min_price_eur = None
                 /\ row.ebay_max_price_eur = None
                 /\ row.profit_potential_eur = None
                 /\ row.profit_percentage = None
                 /\ row.ebay_sold_count = 0
            ELSE /\ row.ebay_avg_price_eur # None
                 /\ row.ebay_min_price_eur # None
                 /\ row.ebay_max_price_eur # None
                 /\ row.profit_potential_eur # None
                 /\ row.profit_percentage # None
                 /\ row.ebay_sold_count >= 1

\* A run produced a row without data that carries the source figures of its
\* listing, and a row backed by sale records of two domains.
C10_Witness ==
    /\ pc = "done"
    /\ \E i, j \in 1..Len(analysis_results) :
         /\ IsNoData(analysis_results[i])
         /\ analysis_results[i].donedeal_listings = 1
         /\ ~IsNoData(analysis_results[j])
         /\ analysis_results[j].ebay_sold_count >= 2

\* ------------------------------------------------------------------------
\* Properties of normalize_product_name
\* ------------------------------------------------------------------------
\* C11: normalize_product_name is idempotent: applied to its own result it
\* returns that result.
C11_NormalizeIdempotent ==
    second_key # None => second_key = first_key

\* ------------------------------------------------------------------------
\* Properties of clean_price
\* ------------------------------------------------------------------------
\* the price string without currency symbols, thousands separators and
\* letters
StrippedPrice == RemoveChars(RemoveChars(price_str, {"€", "$", "£", ","}), Letters)

\* the first decimal-or-integer token of a text: None, or its digits before
\* and after the point (a token may begin with the point)
FirstNumericToken(t) ==
    IF FirstNumber(t) = None THEN None
    ELSE LET i == CHOOSE k \in 1..Len(t) :
                      /\ IsDigit(t[k])
                      /\ \A j \in 1..(k - 1) : ~IsDigit(t[j])
             j == DigitRunEnd(t, i)
         IN IF i > 1 /\ t[i - 1] = "."
            THEN Some([whole |-> <<>>, frac |-> SubSeq(t, i, j)])
            ELSE IF j + 2 <= Len(t) /\ t[j + 1] = "." /\ IsDigit(t[j + 2])
            THEN Some([whole |-> SubSeq(t, i, j),
                       frac |-> SubSeq(t, j + 2, DigitRunEnd(t, j + 2))])
            ELSE Some([whole |-> SubSeq(t, i, j), frac |-> <<>>])

\* the value of a numeric token, as an exact quotient
TokenValue(num) ==
    Reduce(<<DigitsToInt(num.whole \o num.frac), Pow10(Len(num.frac))>>)

\* C12: a price string with a numeric token yields the value of its first
\* numeric token (the lower bound of a range "X to Y"); a price string
\* without one yields None, never zero.
C12_FirstNumericToken ==
    price_value # None =>
        IF FirstNumericToken(StrippedPrice) # None
        THEN price_value[1]
               = Some(TokenValue(FirstNumericToken(StrippedPrice)[1]))
        ELSE price_value[1] = None

\* ------------------------------------------------------------------------
\* Properties of group_similar_items
\* ------------------------------------------------------------------------
\* the keys of the rows of the file
FrameKeys == { normalized_name[df[i].title] : i \in 1..Len(df) }

\* the positions of the aggregates with a key
AggregatesWithKey(key) ==
    { k \in 1..Len(unique_items) : unique_items[k].search_term = key }

\* the first row of the file with a key
FirstRowWithKey(key) ==
    df[CHOOSE i \in FrameRowsWithKey(key) :
           \A j \in FrameRowsWithKey(key) : i <= j]

\* C13: the listings with one non-empty key make exactly one aggregate; its
\* listing_count is their number, its min, avg and max are taken over their
\* prices with min <= avg <= max, and its title, location and url are those
\* of the first of them in input order; no aggregate has the empty key or a
\* key of no listing; 'iPhone 16 128GB' and 'iphone 16 128gb unlocked' make
\* one aggregate of two listings.
C13_OneAggregatePerKey ==
    pc \in {"analyze", "done", "raised"} =>
        /\ \A key \in FrameKeys \ {<<>>} :
               Cardinality(AggregatesWithKey(key)) = 1
        /\ \A k \in 1..Len(unique_items) :
               LET item == unique_items[k]
                   members == FrameRowsWithKey(item.search_term)
                   first == FirstRowWithKey(item.search_term)
               IN /\ item.search_term # <<>>
                  /\ members # {}
                  /\ item.listing_count = Cardinality(members)
                  /\ item.listing_count >= 1
                  /\ \E i \in members :
                         df[i].numeric_price = item.min_donedeal_price
                  /\ \E i \in members :
                         df[i].numeric_price = item.max_donedeal_price
                  /\ \A i \in members :
                         /\ item.min_donedeal_price <= df[i].numeric_price
                         /\ df[i].numeric_price <= item.max_donedeal_price
                  /\ RLeq(<<item.min_donedeal_price, 1>>,
                          item.avg_donedeal_price)
                  /\ RLeq(item.avg_donedeal_price,
                          <<item.max_donedeal_price, 1>>)
                  /\ item.representative_title = first.title
                  /\ item.location = first.location
                  /\ item.url = first.url
        /\ (/\ Len(df) = 2
            /\ normalized_name[df[1].title] = normalized_name[df[2].title]
            /\ normalized_name[df[1].title] # <<>>)
           => /\ Len(unique_items) = 1
              /\ unique_items[1].listing_count = 2

\* ------------------------------------------------------------------------
\* Properties of is_relevant_listing and clean_listings
\* ------------------------------------------------------------------------
\* the lowercased title contains the lowercased keyword and matches none of
\* the exclusion groups, nor, for the keyword 'iphone', of the extra groups
ContainsAndNotExcluded(text, keyword) ==
    /\ Contains(Lower(text), Lower(keyword))
    /\ \A k \in 1..Len(exclusion_patterns) :
           ~Search(exclusion_patterns[k], Lower(text))
    /\ Lower(keyword) = <<"i", "p", "h", "o", "n", "e">> =>
           \A k \in 1..Len(iphone_exclusions) :
               ~Search(iphone_exclusions[k], Lower(text))

\* the rows of the argument with a title, after the columns were stripped
RECURSIVE TitledRows(_)
TitledRows(rows) ==
    IF rows = <<>> THEN <<>>
    ELSE IF Strip(Head(rows).title) = <<>> THEN TitledRows(Tail(rows))
    ELSE <<StripColumns(Head(rows))>> \o TitledRows(Tail(rows))

RECURSIVE RowsClaimedRelevant(_, _)
RowsClaimedRelevant(rows, needsKeyword) ==
    IF rows = <<>> THEN <<>>
    ELSE IF /\ ContainsAndNotExcluded(Head(rows).title, search_keyword)
            /\ needsKeyword => search_keyword # <<>>
         THEN <<Head(rows)>> \o RowsClaimedRelevant(Tail(rows), needsKeyword)
         ELSE RowsClaimedRelevant(Tail(rows), needsKeyword)

IphoneCase == <<" ", " ", "I", "P", "H", "O", "N", "E", " ", "c", "a", "s", "e", " ", " ">>

Discovered(row) ==
    CHOOSE k \in 1..Len(analysis_results) : analysis_results[k] = row

\* C15: rows of equal profit_percentage, the rows without one among them,
\* stand in the ranked output in the order in which they were produced.
C15_StableRanking ==
    pc = "done" =>
        \A i, j \in 1..Len(results_df[1]) :
            (/\ i < j
             /\ results_df[1][i].profit_percentage
                  = results_df[1][j].profit_percentage)
            => Discovered(results_df[1][i]) < Discovered(results_df[1][j])

\* ------------------------------------------------------------------------
\* Properties of the field extraction of extract_listings
\* ------------------------------------------------------------------------
\* the text of a sub-element, the sentinel when it is missing
TextOrSentinel(field) == IF field = None THEN "N/A" ELSE field[1]

\* the record the claim expects for an element (a url is a sequence of
\* tokens, the sentinel one token)
ExpectedRecord(el) ==
    [title |-> TextOrSentinel(el.title),
     price |-> TextOrSentinel(el.price),
     location |-> IF Len(el.meta_items) > 1 THEN el.meta_items[2] ELSE "N/A",
     url |-> IF el.href = None \/ el.href = Some(<<>>) THEN <<"N/A">>
             ELSE FullLink(el.href)]

\* the records the last scraped page added
LastPageRecords ==
    { listings[i] : i \in (Len(listings) - new_listings + 1)..Len(listings) }

\* C16: a missing title, price, location or href of an element becomes
\* 'N/A' while its other fields and the other elements of the page are still
\* extracted: every element of the scraped page has its url recorded, an
\* element that brought a new url has the record with its fields and the
\* sentinels, and every record carries the four fields.
C16_SentinelPerField ==
    /\ \A i \in 1..Len(listings) :
           /\ DOMAIN listings[i] = {"title", "price", "location", "url"}
           /\ \E el \in Elements : listings[i] = ExpectedRecord(el)
    /\ \A k \in 1..Len(listing_elements) :
           LET expected == ExpectedRecord(listing_elements[k])
               earlier == { ExpectedRecord(listing_elements[j]).url :
                              j \in 1..(k - 1) }
               before == { listings[i].url :
                             i \in 1..(Len(listings) - new_listings) }
           IN /\ expected.url \in seen_urls
              /\ expected.url \in Urls(listings)
              /\ expected.url \notin earlier \cup before
                   => expected \in LastPageRecords

\* A page whose first element has no title and whose second has no price and
\* no href was scraped, and both records were added with the sentinels.
C16_Witness ==
    /\ Len(listing_elements) = 2
    /\ listing_elements[1].title = None
    /\ listing_elements[2].price = None
    /\ listing_elements[2].href = None
    /\ new_listings = 2
    /\ listings[Len(listings) - 1].title = "N/A"
    /\ listings[Len(listings) - 1].price # "N/A"
    /\ listings[Len(listings)].price = "N/A"
    /\ listings[Len(listings)].url = <<"N/A">>
    /\ listings[Len(listings)].title # "N/A"

=============================================================================
